---- MODULE Spec2Model ----
(***************************************************************************)
(* Model of recipe_costing.py: an interactive recipe costing tool with two *)
(* JSON-file-backed stores (ingredient costs, recipe costs).               *)
(*                                                                         *)
(* Strings are sequences of one-character strings.  Floats are exact       *)
(* fixed-point numbers counted in units of 10^-Decimals (hundredths); a    *)
(* product of two floats is counted in units of 10^-(2*Decimals).          *)
(* A dict is a sequence of [k, v] records with distinct keys, in insertion *)
(* order.                                                                  *)
(***************************************************************************)
EXTENDS Integers, Sequences, FiniteSets, TLC

VARIABLES pc, ingredients_db, recipes_db, ingredients_file, recipes_file,
          recipe, portions_in, ing_name, weight, gname, caller, call, ret

vars == <<pc, ingredients_db, recipes_db, ingredients_file, recipes_file,
          recipe, portions_in, ing_name, weight, gname, caller, call, ret>>

(* ---------------------------- bounds ----------------------------------- *)
MaxNameLen == 2
MaxStore == 2
MaxIngredients == 2

(* round(cost, 2) *)
Decimals == 2

Scale == 10 ^ Decimals

(* ------------------------- string helpers ------------------------------ *)
SetMin(S) == CHOOSE x \in S : \A y \in S : x <= y

SetMax(S) == CHOOSE x \in S : \A y \in S : x >= y

SeqsUpTo(S, n) == UNION {[1..k -> S] : k \in 0..n}

LowerChar(c) ==
    CASE c = "A" -> "a"
      [] c = "B" -> "b"
      [] c = "Y" -> "y"
      [] c = "N" -> "n"
      [] OTHER -> c

lower(s) == [i \in 1..Len(s) |-> LowerChar(s[i])]

strip(s) ==
    LET idx == {i \in 1..Len(s) : s[i] # " "}
    IN  IF idx = {} THEN <<>> ELSE SubSeq(s, SetMin(idx), SetMax(idx))

(* needle in hay *)
Contains(hay, needle) ==
    \E i \in 0..(Len(hay) - Len(needle)) :
        SubSeq(hay, i + 1, i + Len(needle)) = needle

startswith(hay, needle) ==
    /\ Len(needle) <= Len(hay)
    /\ SubSeq(hay, 1, Len(needle)) = needle

(* --------------------------- dict helpers ------------------------------ *)
keys(d) == [i \in 1..Len(d) |-> d[i].k]

HasKey(d, k) == \E i \in 1..Len(d) : d[i].k = k

Get(d, k) == d[CHOOSE i \in 1..Len(d) : d[i].k = k].v

(* d[k] = v : overwrite in place, else append *)
DictSet(d, k, v) ==
    IF HasKey(d, k)
    THEN [i \in 1..Len(d) |-> IF d[i].k = k THEN [k |-> k, v |-> v] ELSE d[i]]
    ELSE Append(d, [k |-> k, v |-> v])

(* ----------------------- float text conversions ------------------------ *)
DigitChars == <<"0", "1", "2", "3", "4", "5", "6", "7", "8", "9">>

IsDigit(c) == \E i \in 1..10 : DigitChars[i] = c

DigitVal(c) == (CHOOSE i \in 1..10 : DigitChars[i] = c) - 1

RECURSIVE IntVal(_)
IntVal(s) ==
    IF s = <<>> THEN 0
    ELSE 10 * IntVal(SubSeq(s, 1, Len(s) - 1)) + DigitVal(s[Len(s)])

RECURSIVE IntDigits(_)
IntDigits(n) ==
    IF n < 10 THEN <<DigitChars[n + 1]>>
    ELSE Append(IntDigits(n \div 10), DigitChars[(n % 10) + 1])

(* fraction digits, read as a count of 10^-Decimals *)
FracVal(s) == IntVal(s) * (10 ^ (Decimals - Len(s)))

NoValue == [ok |-> FALSE, value |-> 0]

(* float(text): ValueError (ok = FALSE) or the value *)
float(text) ==
    LET neg  == Len(text) > 0 /\ text[1] = "-"
        body == IF neg THEN Tail(text) ELSE text
        dots == {i \in 1..Len(body) : body[i] = "."}
        dot  == IF dots = {} THEN Len(body) + 1 ELSE SetMin(dots)
        ip   == SubSeq(body, 1, dot - 1)
        fp   == SubSeq(body, dot + 1, Len(body))
        wellformed ==
            /\ Cardinality(dots) <= 1
            /\ \A i \in 1..Len(ip) : IsDigit(ip[i])
            /\ \A i \in 1..Len(fp) : IsDigit(fp[i])
            /\ Len(ip) + Len(fp) > 0
            /\ Len(fp) <= Decimals
        mag  == IntVal(ip) * Scale + FracVal(fp)
    IN  IF wellformed
        THEN [ok |-> TRUE, value |-> IF neg THEN 0 - mag ELSE mag]
        ELSE NoValue

(* repr of a float, as json.dump writes it: shortest text that reads back *)
float_repr(v) ==
    LET mag  == IF v < 0 THEN 0 - v ELSE v
        f    == mag % Scale
        fd   == IntDigits(f)
        pad  == [i \in 1..(Decimals - Len(fd)) |-> "0"] \o fd
        nz   == {i \in 1..Len(pad) : pad[i] # "0"}
        frac == IF nz = {} THEN <<"0">> ELSE SubSeq(pad, 1, SetMax(nz))
        txt  == IntDigits(mag \div Scale) \o <<".">> \o frac
    IN  IF v < 0 THEN <<"-">> \o txt ELSE txt

(* int(x): truncation toward zero *)
int(x) == IF x >= 0 THEN x \div Scale ELSE 0 - ((0 - x) \div Scale)

(* variant: the digits after the second decimal are dropped *)
round2_floor(num, den) == {num \div (den * Scale)}

(* round(num/den, 2) for num counted in 10^-(2*Decimals), den > 0 an       *)
(* integer: the result in 10^-Decimals.  An exact decimal tie is settled   *)
(* by the binary representation of the float, so either neighbour may be   *)
(* the result.                                                             *)
round2(num, den) ==
    LET d  == den * Scale
        lo == num \div d
        r  == num % d
    IN  IF 2 * r < d THEN {lo}
        ELSE IF 2 * r > d THEN {lo + 1}
        ELSE {lo, lo + 1}

(* ----------------------- input validation helpers ---------------------- *)
get_positive_float(text) ==
    LET f == float(text)
    IN  IF f.ok /\ f.value > 0 THEN f ELSE NoValue

get_non_empty_string(text) ==
    LET value == strip(text)
    IN  [ok |-> value # <<>>, value |-> value]

(* ------------------------- fuzzy matching ------------------------------ *)
(* variant: the exact match compares the spellings as typed *)
suggest_name_case_sensitive(input_name, valid_names, reply) ==
    LET input_name_lower == lower(input_name)
        exact == {i \in 1..Len(valid_names) : valid_names[i] = input_name}
        qualifies(name) ==
            \/ Contains(lower(name), input_name_lower)
            \/ startswith(lower(name), input_name_lower)
        suggestions == SelectSeq(valid_names, qualifies)
        confirm == lower(strip(reply))
    IN  IF exact # {}
        THEN [name |-> valid_names[SetMin(exact)], prompts |-> 0,
              offered |-> <<>>]
        ELSE IF suggestions # <<>>
        THEN [name |-> IF confirm = <<"y">> THEN suggestions[1]
                       ELSE input_name,
              prompts |-> 1, offered |-> suggestions[1]]
        ELSE [name |-> input_name, prompts |-> 0, offered |-> <<>>]

(* variant: the last suggestion is offered *)
suggest_name_last(input_name, valid_names, reply) ==
    LET input_name_lower == lower(input_name)
        exact == {i \in 1..Len(valid_names) :
                     lower(valid_names[i]) = input_name_lower}
        qualifies(name) ==
            \/ Contains(lower(name), input_name_lower)
            \/ startswith(lower(name), input_name_lower)
        suggestions == SelectSeq(valid_names, qualifies)
        confirm == lower(strip(reply))
    IN  IF exact # {}
        THEN [name |-> valid_names[SetMin(exact)], prompts |-> 0,
              offered |-> <<>>]
        ELSE IF suggestions # <<>>
        THEN [name |-> IF confirm = <<"y">>
                       THEN suggestions[Len(suggestions)]
                       ELSE input_name,
              prompts |-> 1, offered |-> suggestions[Len(suggestions)]]
        ELSE [name |-> input_name, prompts |-> 0, offered |-> <<>>]

suggest_name(input_name, valid_names, reply) ==
    LET input_name_lower == lower(input_name)
        exact == {i \in 1..Len(valid_names) :
                     lower(valid_names[i]) = input_name_lower}
        qualifies(name) ==
            \/ Contains(lower(name), input_name_lower)
            \/ startswith(lower(name), input_name_lower)
        suggestions == SelectSeq(valid_names, qualifies)
        confirm == lower(strip(reply))
    IN  IF exact # {}
        THEN [name |-> valid_names[SetMin(exact)], prompts |-> 0,
              offered |-> <<>>]
        ELSE IF suggestions # <<>>
        THEN [name |-> IF confirm = <<"y">> THEN suggestions[1]
                       ELSE input_name,
              prompts |-> 1, offered |-> suggestions[1]]
        ELSE [name |-> input_name, prompts |-> 0, offered |-> <<>>]

(* ------------------------------ Store ---------------------------------- *)
(* A JSON document is modelled as the sequence of its members, each the    *)
(* text of the key between the quotes and the text of the number.          *)
NoFile == [exists |-> FALSE, text |-> <<>>]

RECURSIVE json_escape(_)
json_escape(s) ==
    IF s = <<>> THEN <<>>
    ELSE IF s[1] = "\"" \/ s[1] = "\\"
         THEN <<"\\", s[1]>> \o json_escape(Tail(s))
         ELSE <<s[1]>> \o json_escape(Tail(s))

RECURSIVE json_unescape(_)
json_unescape(s) ==
    IF s = <<>> THEN <<>>
    ELSE IF s[1] = "\\" /\ Len(s) >= 2
         THEN <<s[2]>> \o json_unescape(SubSeq(s, 3, Len(s)))
         ELSE <<s[1]>> \o json_unescape(Tail(s))

json_dump(data) ==
    [i \in 1..Len(data) |->
        [key |-> json_escape(data[i].k), num |-> float_repr(data[i].v)]]

(* members are read in order; a repeated key keeps its last value *)
RECURSIVE json_load(_)
json_load(text) ==
    IF text = <<>> THEN <<>>
    ELSE LET m == text[Len(text)]
         IN  DictSet(json_load(SubSeq(text, 1, Len(text) - 1)),
                     json_unescape(m.key), float(m.num).value)

load_data(file) == IF file.exists THEN json_load(file.text) ELSE <<>>

(* variant: the file is opened for appending *)
save_data_append(file, data) ==
    [exists |-> TRUE, text |-> file.text \o json_dump(data)]

(* open(filename, "w") truncates: the previous content plays no part *)
save_data(file, data) == [exists |-> TRUE, text |-> json_dump(data)]

(* ------------------------ Ingredient / Recipe -------------------------- *)
Ingredient(name, weight_g, cost_per_g) ==
    [name |-> name, weight_g |-> weight_g, cost_per_g |-> cost_per_g]

ingredient_total_cost(ing) == ing.weight_g * ing.cost_per_g

Recipe(name, portions) ==
    [name |-> name, portions |-> portions, ingredients |-> <<>>]

add_ingredient(r, ingredient) ==
    [r EXCEPT !.ingredients = Append(@, ingredient)]

RECURSIVE SumCosts(_)
SumCosts(ings) ==
    IF ings = <<>> THEN 0
    ELSE ingredient_total_cost(ings[1]) + SumCosts(Tail(ings))

total_cost(r) == SumCosts(r.ingredients)

NoRecipe == Recipe(<<>>, 0)

(* --------------------------- user inputs ------------------------------- *)
(* replies typed at the name prompts of a session *)
NameInputs == {<<"a">>, <<"a", "b">>, <<" ", "a">>, <<" ">>}

(* replies typed at the recipe name prompt *)
RecipeNameInputs == {<<"A", " ">>, <<>>}

(* names passed by a caller of get_cost_per_gram other than create_recipe *)
DirectNames == {<<"a">>, <<"a", "b">>}

(* replies typed at the numeric prompts *)
PortionInputs == {<<"x">>, <<"0">>, <<"0", ".", "5">>, <<"2", ".", "9">>,
                  <<"3">>}

WeightInputs == {<<"-", "1">>, <<"2">>}

CostInputs == {<<>>, <<"0", ".", "0", "5">>, <<"0", ".", "1">>}

(* replies typed at the y/n prompts *)
Replies == {<<"y">>, <<"Y", " ">>, <<"n">>}

(* ingredient files found at start-up *)
InitialIngredientFiles ==
    {NoFile,
     save_data(NoFile, <<[k |-> <<"A", "B">>, v |-> 50]>>)}

InitialRecipeFiles ==
    {NoFile,
     save_data(NoFile, <<[k |-> <<"b">>, v |-> 125]>>)}

NoCall == [op |-> "none"]

(* --------------------------- RecipeManager ----------------------------- *)
Init ==
    /\ ingredients_file \in InitialIngredientFiles
    /\ recipes_file \in InitialRecipeFiles
    /\ ingredients_db = load_data(ingredients_file)
    /\ recipes_db = load_data(recipes_file)
    /\ pc = "idle"
    /\ recipe = NoRecipe
    /\ portions_in = 0
    /\ ing_name = <<>>
    /\ weight = 0
    /\ gname = <<>>
    /\ caller = "none"
    /\ call = NoCall
    /\ ret = NoCall

(* a new process: RecipeManager() reads both files again *)
Restart ==
    /\ pc \in {"idle", "crashed"}
    /\ ingredients_db' = load_data(ingredients_file)
    /\ recipes_db' = load_data(recipes_file)
    /\ pc' = "idle"
    /\ recipe' = NoRecipe
    /\ portions_in' = 0
    /\ ing_name' = <<>>
    /\ weight' = 0
    /\ gname' = <<>>
    /\ caller' = "none"
    /\ UNCHANGED <<ingredients_file, recipes_file, call, ret>>

(* create_recipe, up to the construction of the Recipe *)
CreateRecipeBegin(name_text, portions_text) ==
    LET name == get_non_empty_string(name_text)
        p    == get_positive_float(portions_text)
    IN  /\ pc = "idle"
        /\ name.ok /\ p.ok
        /\ portions_in' = p.value
        /\ recipe' = Recipe(name.value, int(p.value))
        /\ pc' = "ing_name"
        /\ UNCHANGED <<ingredients_db, recipes_db, ingredients_file,
                       recipes_file, ing_name, weight, gname, caller,
                       call, ret>>

(* the ingredient name prompt and its resolution *)
EnterIngredientName(text, reply) ==
    LET typed == get_non_empty_string(text)
    IN  /\ pc = "ing_name"
        /\ typed.ok
        /\ ing_name' = suggest_name(typed.value, keys(ingredients_db),
                                    reply).name
        /\ pc' = "weight"
        /\ UNCHANGED <<ingredients_db, recipes_db, ingredients_file,
                       recipes_file, recipe, portions_in, weight, gname,
                       caller, call, ret>>

(* the weight prompt, then the call of get_cost_per_gram(ing_name) *)
EnterWeight(text) ==
    LET w == get_positive_float(text)
    IN  /\ pc = "weight"
        /\ w.ok
        /\ weight' = w.value
        /\ gname' = ing_name
        /\ caller' = "create_recipe"
        /\ pc' = "get_cost"
        /\ UNCHANGED <<ingredients_db, recipes_db, ingredients_file,
                       recipes_file, recipe, portions_in, ing_name,
                       call, ret>>

(* get_cost_per_gram called on its own *)
CallGetCostPerGram(name) ==
    /\ pc = "idle"
    /\ gname' = name
    /\ caller' = "direct"
    /\ pc' = "get_cost"
    /\ UNCHANGED <<ingredients_db, recipes_db, ingredients_file,
                   recipes_file, recipe, portions_in, ing_name, weight,
                   call, ret>>

(* get_cost_per_gram returns cost_per_g to its caller; in create_recipe    *)
(* the Ingredient is built and appended                                    *)
ReturnCost(cost_per_g) ==
    IF caller = "create_recipe"
    THEN /\ recipe' = add_ingredient(recipe,
                          Ingredient(ing_name, weight, cost_per_g))
         /\ pc' = "another"
    ELSE /\ recipe' = recipe
         /\ pc' = "idle"

(* variant: the cost is asked for whether or not the name is known *)
GetCostLookup_AlwaysPrompt(reply) ==
    LET name == suggest_name(gname, keys(ingredients_db), reply).name
    IN  /\ pc = "get_cost"
        /\ gname' = name
        /\ pc' = "enter_cost"
        /\ UNCHANGED <<ingredients_db, recipes_db, ingredients_file,
                       recipes_file, recipe, portions_in, ing_name, weight,
                       caller, call, ret>>

(* variant: the name is looked up as passed, without resolution *)
GetCostLookup_NoResolve(reply) ==
    /\ pc = "get_cost"
    /\ IF HasKey(ingredients_db, gname)
       THEN /\ ReturnCost(Get(ingredients_db, gname))
            /\ gname' = <<>>
            /\ caller' = "none"
       ELSE /\ pc' = "enter_cost"
            /\ UNCHANGED <<recipe, caller, gname>>
    /\ UNCHANGED <<ingredients_db, recipes_db, ingredients_file,
                   recipes_file, portions_in, ing_name, weight,
                   call, ret>>

(* get_cost_per_gram: resolution and lookup *)
GetCostLookup(reply) ==
    LET name == suggest_name(gname, keys(ingredients_db), reply).name
    IN  /\ pc = "get_cost"
        /\ IF HasKey(ingredients_db, name)
           THEN /\ ReturnCost(Get(ingredients_db, name))
                /\ gname' = <<>>
                /\ caller' = "none"
           ELSE /\ gname' = name
                /\ pc' = "enter_cost"
                /\ UNCHANGED <<recipe, caller>>
        /\ UNCHANGED <<ingredients_db, recipes_db, ingredients_file,
                       recipes_file, portions_in, ing_name, weight,
                       call, ret>>

(* variant: the new entry is not written to the file *)
GetCostPrompt_NoSave(text) ==
    LET cost == get_positive_float(text)
    IN  /\ pc = "enter_cost"
        /\ cost.ok
        /\ ingredients_db' = DictSet(ingredients_db, gname, cost.value)
        /\ ReturnCost(cost.value)
        /\ gname' = <<>>
        /\ caller' = "none"
        /\ UNCHANGED <<recipes_db, recipes_file, ingredients_file,
                       portions_in, ing_name, weight, call, ret>>

(* get_cost_per_gram: the cost prompt, insertion and save *)
GetCostPrompt(text) ==
    LET cost == get_positive_float(text)
    IN  /\ pc = "enter_cost"
        /\ cost.ok
        /\ ingredients_db' = DictSet(ingredients_db, gname, cost.value)
        /\ ingredients_file' = save_data(ingredients_file, ingredients_db')
        /\ ReturnCost(cost.value)
        /\ gname' = <<>>
        /\ caller' = "none"
        /\ UNCHANGED <<recipes_db, recipes_file, portions_in, ing_name,
                       weight, call, ret>>

(* "Add another ingredient?" answered y *)
AddAnother(cont) ==
    /\ pc = "another"
    /\ lower(cont) = <<"y">>
    /\ Len(recipe.ingredients) < MaxIngredients
    /\ pc' = "ing_name"
    /\ UNCHANGED <<ingredients_db, recipes_db, ingredients_file,
                   recipes_file, recipe, portions_in, ing_name, weight,
                   gname, caller, call, ret>>

(* cost_per_portion(): the set of values round(cost, 2) may take; empty    *)
(* when the division raises ZeroDivisionError                              *)
cost_per_portion(r) ==
    IF r.portions = 0 THEN {} ELSE round2(total_cost(r), r.portions)

(* variant: the entry is stored before the division is attempted *)
CreateRecipeFinish_StoreFirst ==
    IF cost_per_portion(recipe) = {}
    THEN /\ recipes_db' = DictSet(recipes_db, recipe.name, 0)
         /\ recipes_file' = save_data(recipes_file, recipes_db')
         /\ pc' = "crashed"
         /\ UNCHANGED <<recipe, portions_in, ing_name, weight>>
    ELSE /\ \E cost \in cost_per_portion(recipe) :
                recipes_db' = DictSet(recipes_db, recipe.name, cost)
         /\ recipes_file' = save_data(recipes_file, recipes_db')
         /\ pc' = "idle"
         /\ recipe' = NoRecipe
         /\ portions_in' = 0
         /\ ing_name' = <<>>
         /\ weight' = 0

(* the end of create_recipe after the loop is left *)
CreateRecipeFinish ==
    IF cost_per_portion(recipe) = {}
    THEN /\ pc' = "crashed"
         /\ UNCHANGED <<recipes_db, recipes_file, recipe, portions_in,
                        ing_name, weight>>
    ELSE /\ \E cost \in cost_per_portion(recipe) :
                recipes_db' = DictSet(recipes_db, recipe.name, cost)
         /\ recipes_file' = save_data(recipes_file, recipes_db')
         /\ pc' = "idle"
         /\ recipe' = NoRecipe
         /\ portions_in' = 0
         /\ ing_name' = <<>>
         /\ weight' = 0

(* "Add another ingredient?" answered anything else *)
StopAdding(cont) ==
    /\ pc = "another"
    /\ lower(cont) # <<"y">>
    /\ CreateRecipeFinish
    /\ UNCHANGED <<ingredients_db, ingredients_file, gname, caller,
                   call, ret>>

(* view_recipe_cost only prints *)
ViewRecipeCost ==
    /\ pc = "idle"
    /\ UNCHANGED vars

Next ==
    \/ Restart
    \/ \E n \in RecipeNameInputs, p \in PortionInputs :
           CreateRecipeBegin(n, p)
    \/ \E n \in NameInputs, r \in Replies : EnterIngredientName(n, r)
    \/ \E w \in WeightInputs : EnterWeight(w)
    \/ \E n \in DirectNames : CallGetCostPerGram(n)
    \/ \E r \in Replies : GetCostLookup(r)
    \/ \E c \in CostInputs : GetCostPrompt(c)
    \/ \E r \in Replies : AddAnother(r)
    \/ \E r \in Replies : StopAdding(r)
    \/ ViewRecipeCost

Spec == Init /\ [][Next]_vars

(* ------------------ suggest_name on its own ---------------------------- *)
MaxKnown == 2

NameChars == {"a", "A"}

KnownNames ==
    {ns \in SeqsUpTo(SeqsUpTo(NameChars, MaxNameLen), MaxKnown) :
        \A i, j \in 1..Len(ns) : i # j => ns[i] # ns[j]}

ResolveReplies == {<<"y">>, <<" ", "Y">>, <<"n">>, <<>>}

Locals ==
    /\ recipe = NoRecipe
    /\ portions_in = 0
    /\ ing_name = <<>>
    /\ weight = 0
    /\ gname = <<>>
    /\ caller = "none"

InitResolve ==
    /\ call \in [op : {"suggest_name"},
                 input_name : SeqsUpTo(NameChars, MaxNameLen),
                 valid_names : KnownNames,
                 reply : ResolveReplies]
    /\ ret = NoCall
    /\ pc = "resolve"
    /\ ingredients_file = NoFile
    /\ recipes_file = NoFile
    /\ ingredients_db = <<>>
    /\ recipes_db = <<>>
    /\ Locals

SuggestName ==
    /\ pc = "resolve"
    /\ ret' = suggest_name(call.input_name, call.valid_names, call.reply)
    /\ pc' = "resolved"
    /\ UNCHANGED <<ingredients_db, recipes_db, ingredients_file,
                   recipes_file, recipe, portions_in, ing_name, weight,
                   gname, caller, call>>

NextResolve == SuggestName

SpecResolve == InitResolve /\ [][NextResolve]_vars

(* ------------------ save_data / load_data on their own ----------------- *)
KeyChars == {"\"", "\\"}

StoreValues == {5, 120, 0 - 300}

Mappings ==
    {m \in SeqsUpTo([k : SeqsUpTo(KeyChars, MaxNameLen), v : StoreValues],
                    MaxStore) :
        \A i, j \in 1..Len(m) : i # j => m[i].k # m[j].k}

PriorFiles ==
    {NoFile,
     [exists |-> TRUE,
      text |-> <<[key |-> <<"a">>, num |-> <<"7", ".", "2", "5">>],
                 [key |-> <<"z">>, num |-> <<"1">>]>>]}

InitStore ==
    /\ call \in [op : {"save_data"}, data : Mappings, prior : PriorFiles]
    /\ ret = NoCall
    /\ pc = "store"
    /\ ingredients_file = call.prior
    /\ recipes_file = NoFile
    /\ ingredients_db = <<>>
    /\ recipes_db = <<>>
    /\ Locals

SaveData ==
    /\ pc = "store"
    /\ ingredients_file' = save_data(ingredients_file, call.data)
    /\ pc' = "saved"
    /\ UNCHANGED <<ingredients_db, recipes_db, recipes_file, recipe,
                   portions_in, ing_name, weight, gname, caller, call, ret>>

LoadData ==
    /\ pc = "saved"
    /\ ret' = [op |-> "load_data", data |-> load_data(ingredients_file)]
    /\ pc' = "loaded"
    /\ UNCHANGED <<ingredients_db, recipes_db, ingredients_file,
                   recipes_file, recipe, portions_in, ing_name, weight,
                   gname, caller, call>>

NextStore == SaveData \/ LoadData

SpecStore == InitStore /\ [][NextStore]_vars

(* ============================ properties =============================== *)
Abs(x) == IF x < 0 THEN 0 - x ELSE x

InDict(d, k, v) == \E i \in 1..Len(d) : d[i].k = k /\ d[i].v = v

Extends(old, new) == \A i \in 1..Len(old) : InDict(new, old[i].k, old[i].v)

CaseUnique(d) ==
    \A i, j \in 1..Len(d) : lower(d[i].k) = lower(d[j].k) => i = j

LastIngredient(r) == r.ingredients[Len(r.ingredients)]

(* C1: every Recipe built by create_recipe has portions > 0, so            *)
(* cost_per_portion never divides by zero.                                 *)
C1_PortionsPositive ==
    /\ recipe.name # <<>> => recipe.portions > 0
    /\ pc # "crashed"

(* C2: ingredient cost entries are write-once: every step keeps every key  *)
(* of the ingredient store with the same cost, in memory and on disk.      *)
C2_WriteOnce ==
    [][/\ Extends(ingredients_db, ingredients_db')
       /\ ingredients_file' # ingredients_file =>
              Extends(load_data(ingredients_file),
                      load_data(ingredients_file'))]_vars

C2_Witness ==
    /\ pc = "another"
    /\ Len(recipe.ingredients) = 2
    /\ InDict(ingredients_db, <<"A", "B">>, 50)
    /\ InDict(ingredients_db, <<"a">>, 5)
    /\ recipe.ingredients[1].name = <<"a">>
    /\ recipe.ingredients[2].name = <<"A", "B">>

(* C3: get_cost_per_gram on an absent name appends exactly one entry, the  *)
(* resolved name with the entered positive cost (the cost it returns), and *)
(* saves; the ingredient file always reads back as the in-memory store.    *)
C3_InsertAndPersist ==
    /\ [](load_data(ingredients_file) = ingredients_db)
    /\ [][(pc = "enter_cost" /\ pc' # "enter_cost") =>
            /\ ~HasKey(ingredients_db, gname)
            /\ Len(ingredients_db') = Len(ingredients_db) + 1
            /\ SubSeq(ingredients_db', 1, Len(ingredients_db))
                   = ingredients_db
            /\ ingredients_db'[Len(ingredients_db')].k = gname
            /\ ingredients_db'[Len(ingredients_db')].v > 0
            /\ pc' = "another" =>
                   LastIngredient(recipe').cost_per_g
                       = ingredients_db'[Len(ingredients_db')].v
            /\ ingredients_file'.exists
            /\ load_data(ingredients_file') = ingredients_db']_vars

C3_Witness ==
    /\ pc = "another"
    /\ Len(recipe.ingredients) = 1
    /\ ing_name = <<"a", "b">>
    /\ ingredients_db = <<[k |-> <<"a">>, v |-> 5],
                          [k |-> <<"a", "b">>, v |-> 10]>>
    /\ load_data(ingredients_file) = ingredients_db

(* C4: when create_recipe completes with p >= 1 portions, p the entered    *)
(* count truncated toward zero, the recipe store maps the recipe name to   *)
(* total / p rounded to 2 decimals (within half a hundredth), every other  *)
(* entry is unchanged, and the recipe file reads back as the store.        *)
C4_StoredCost ==
    [][(pc = "another" /\ pc' = "idle") =>
        LET p   == recipe.portions
            num == total_cost(recipe)
        IN  /\ p >= 1
            /\ Len(recipe.ingredients) >= 1
            /\ p * Scale <= portions_in
            /\ portions_in < (p + 1) * Scale
            /\ \E v \in 0..num :
                  /\ InDict(recipes_db', recipe.name, v)
                  /\ 2 * Abs(v * p * Scale - num) <= p * Scale
            /\ \A i \in 1..Len(recipes_db) :
                  recipes_db[i].k # recipe.name =>
                      InDict(recipes_db', recipes_db[i].k, recipes_db[i].v)
            /\ \A i \in 1..Len(recipes_db') :
                  \/ recipes_db'[i].k = recipe.name
                  \/ HasKey(recipes_db, recipes_db'[i].k)
            /\ \A i, j \in 1..Len(recipes_db') :
                  recipes_db'[i].k = recipes_db'[j].k => i = j
            /\ recipes_file'.exists
            /\ load_data(recipes_file') = recipes_db']_vars

C4_Witness ==
    /\ pc = "idle"
    /\ recipes_db = <<[k |-> <<"b">>, v |-> 125], [k |-> <<"A">>, v |-> 7]>>
    /\ load_data(recipes_file) = recipes_db

(* C5: when some known name equals the typed name case-insensitively,      *)
(* suggest_name returns a known name, in its stored spelling, that equals  *)
(* the typed name case-insensitively, and prompts nobody.                  *)
C5_ExactMatch ==
    (/\ pc = "resolved"
     /\ \E i \in 1..Len(call.valid_names) :
            lower(call.valid_names[i]) = lower(call.input_name))
    => /\ ret.prompts = 0
       /\ \E i \in 1..Len(call.valid_names) : call.valid_names[i] = ret.name
       /\ lower(ret.name) = lower(call.input_name)

C5_Witness ==
    /\ pc = "resolved"
    /\ call.input_name = <<"a", "a">>
    /\ call.valid_names = <<<<"a">>, <<"A", "a">>>>
    /\ ret.name = <<"A", "a">>
    /\ ret.prompts = 0

NoExactMatch ==
    \A i \in 1..Len(call.valid_names) :
        lower(call.valid_names[i]) # lower(call.input_name)

Candidates ==
    {i \in 1..Len(call.valid_names) :
        Contains(lower(call.valid_names[i]), lower(call.input_name))}

FirstCandidate == call.valid_names[SetMin(Candidates)]

(* the shape shared by C6 as stated and as amended; accepted says whether  *)
(* the reply counts as a yes                                               *)
ResolveOutcome(accepted) ==
    (pc = "resolved" /\ NoExactMatch) =>
        IF Candidates # {}
        THEN /\ ret.prompts = 1
             /\ ret.offered = FirstCandidate
             /\ ret.name = FirstCandidate <=> accepted
             /\ ret.name # FirstCandidate => ret.name = call.input_name
        ELSE /\ ret.prompts = 0
             /\ ret.name = call.input_name

(* C6 as stated: without an exact match, the first known name containing   *)
(* the typed name is offered in one prompt and returned if and only if the *)
(* reply is 'y' case-insensitively; otherwise the typed name is returned.  *)
C6_Original == ResolveOutcome(lower(call.reply) = <<"y">>)

(* C6 as amended: the reply is accepted if and only if it is 'y'           *)
(* case-insensitively after surrounding whitespace is stripped.            *)
C6_Suggestion == ResolveOutcome(lower(strip(call.reply)) = <<"y">>)

C6_Witness ==
    /\ pc = "resolved"
    /\ call.input_name = <<"a">>
    /\ call.valid_names = <<<<"A", "a">>, <<"a", "A">>>>
    /\ call.reply = <<" ", "Y">>
    /\ ret.prompts = 1
    /\ ret.name = <<"A", "a">>

(* C7: save_data(m) followed by load_data on the same file returns m,      *)
(* whatever the file held before.                                          *)
C7_RoundTrip == pc = "loaded" => ret.data = call.data

C7_Witness ==
    /\ pc = "loaded"
    /\ call.prior.text # <<>>
    /\ call.data = <<[k |-> <<"\"", "\\">>, v |-> 5],
                     [k |-> <<"\\">>, v |-> 0 - 300]>>
    /\ ret.data = call.data

(* C8: every Ingredient appended in create_recipe has a name that is a key *)
(* of the ingredient store and the cost the store holds for that name.     *)
C8_AppendedConsistent ==
    [][Len(recipe'.ingredients) > Len(recipe.ingredients) =>
        InDict(ingredients_db', LastIngredient(recipe').name,
               LastIngredient(recipe').cost_per_g)]_vars

(* C9: a step never makes two keys of the ingredient store equal           *)
(* case-insensitively when no two were before.                             *)
C9_CaseUnique ==
    [][CaseUnique(ingredients_db) => CaseUnique(ingredients_db')]_vars

C9_Witness ==
    /\ pc = "another"
    /\ ing_name = <<"A", "B">>
    /\ ingredients_db = <<[k |-> <<"A", "B">>, v |-> 50],
                          [k |-> <<"a">>, v |-> 10]>>
    /\ Len(recipe.ingredients) = 2

(* C10: no step of a create_recipe call whose portion count is 0, the      *)
(* failing division included, changes the recipe store or the recipe file. *)
C10_FailureLeavesRecipes ==
    [][(\/ recipe.name # <<>> /\ recipe.portions = 0
        \/ recipe'.name # <<>> /\ recipe'.portions = 0)
       => UNCHANGED <<recipes_db, recipes_file>>]_vars

C10_Witness ==
    /\ pc = "crashed"
    /\ recipe.portions = 0
    /\ Len(recipe.ingredients) = 2
    /\ recipes_db = <<[k |-> <<"b">>, v |-> 125], [k |-> <<"A">>, v |-> 7]>>
    /\ recipe.name = <<"A">>

====
